---- MODULE Spec2Model ----
(***************************************************************************)
(* Model of the chat route handler of BBS-fitment                          *)
(* (src/app/api/chat/route.ts): POST and validateAndFilterUrls.            *)
(*                                                                         *)
(* A JavaScript string is a sequence of one-character strings, so that     *)
(* toLowerCase, includes, startsWith, trim, join, the URL regular          *)
(* expression and JSON.parse / JSON.stringify are computed character by    *)
(* character.  Three long literals of the source are abbreviated to one    *)
(* symbol each: the instruction template and the two context markers.      *)
(***************************************************************************)
EXTENDS Integers, Sequences, FiniteSets, TLC

(***************************************************************************)
(* Bounds of the model.                                                    *)
(***************************************************************************)
MaxResults == 2

MaxChunks == 1

NumRequests == 2

(***************************************************************************)
(* String primitives (ECMAScript String.prototype).                        *)
(***************************************************************************)
UpperCase ==
  <<"A","B","C","D","E","F","G","H","I","J","K","L","M",
    "N","O","P","Q","R","S","T","U","V","W","X","Y","Z">>

LowerCase ==
  <<"a","b","c","d","e","f","g","h","i","j","k","l","m",
    "n","o","p","q","r","s","t","u","v","w","x","y","z">>

WhiteSpace == {" ", "\n", "\t", "\r"}

Digits == <<"0","1","2","3","4","5","6","7","8","9">>

toLowerChar(c) ==
  IF \E i \in 1..26 : UpperCase[i] = c
    THEN LowerCase[CHOOSE i \in 1..26 : UpperCase[i] = c]
    ELSE c

toLowerCase(s) == [i \in 1..Len(s) |-> toLowerChar(s[i])]

startsWithAt(s, p, i) ==
  /\ i + Len(p) - 1 <= Len(s)
  /\ \A k \in 1..Len(p) : s[i + k - 1] = p[k]

(* A wrong prefix test that ignores the case of the letters. *)
startsWith_IgnoreCase(s, p) ==
  startsWithAt(toLowerCase(s), toLowerCase(p), 1)

startsWith(s, p) == startsWithAt(s, p, 1)

includes(s, sub) == \E i \in 1..(Len(s) + 1) : startsWithAt(s, sub, i)

(* A wrong trim that removes nothing. *)
trim_Identity(s) == s

trim(s) ==
  LET keep == {i \in 1..Len(s) : s[i] \notin WhiteSpace}
  IN  IF keep = {} THEN <<>>
      ELSE SubSeq(s, CHOOSE i \in keep : \A j \in keep : i <= j,
                     CHOOSE i \in keep : \A j \in keep : i >= j)

RECURSIVE join(_, _)
join(list, sep) ==
  IF list = <<>> THEN <<>>
  ELSE IF Len(list) = 1 THEN list[1]
  ELSE list[1] \o sep \o join(Tail(list), sep)

(***************************************************************************)
(* JavaScript values, as far as the handler looks into them.  A value is   *)
(* [t, v]: null, a number, a boolean, a string (v its characters), an      *)
(* array (v its elements) or an object (v its members [k, val] in order).  *)
(***************************************************************************)
Null == [t |-> "null", v |-> <<>>]

Num(n) == [t |-> "num", v |-> <<n>>]

Bool(b) == [t |-> "bool", v |-> <<b>>]

Str(s) == [t |-> "str", v |-> s]

Arr(items) == [t |-> "arr", v |-> items]

Obj(members) == [t |-> "obj", v |-> members]

Member(k, val) == [k |-> k, val |-> val]

(* An optional value: <<>> is undefined, <<x>> is x. *)
Undefined == <<>>

Some(x) == <<x>>

(* ToBoolean: the truthiness the handler's `if (x)` and `||` test. *)
Truthy(x) ==
  CASE x.t = "null" -> FALSE
    [] x.t = "num"  -> x.v[1] # 0
    [] x.t = "bool" -> x.v[1]
    [] x.t = "str"  -> x.v # <<>>
    [] OTHER        -> TRUE

(* Property read `x[k]` on a non-null value: the last member named k of an *)
(* object, undefined on everything else the model holds.                   *)
GetField(x, k) ==
  IF x.t = "obj" /\ \E i \in 1..Len(x.v) : x.v[i].k = k
    THEN Some(x.v[CHOOSE i \in 1..Len(x.v) :
                    /\ x.v[i].k = k
                    /\ \A j \in 1..Len(x.v) : x.v[j].k = k => j <= i].val)
    ELSE Undefined

RECURSIVE digitsOf(_)
digitsOf(n) ==
  IF n < 10 THEN <<Digits[n + 1]>>
  ELSE digitsOf(n \div 10) \o <<Digits[(n % 10) + 1]>>

Quote == "\""

(* JSON.stringify, for the values of the model (strings hold no character *)
(* that needs an escape).                                                  *)
RECURSIVE stringify(_)
stringify(x) ==
  CASE x.t = "null" -> <<"n","u","l","l">>
    [] x.t = "num"  -> digitsOf(x.v[1])
    [] x.t = "bool" -> IF x.v[1] THEN <<"t","r","u","e">>
                                 ELSE <<"f","a","l","s","e">>
    [] x.t = "str"  -> <<Quote>> \o x.v \o <<Quote>>
    [] x.t = "arr"  ->
         <<"[">> \o join([i \in 1..Len(x.v) |-> stringify(x.v[i])], <<",">>)
                 \o <<"]">>
    [] x.t = "obj"  ->
         <<"{">> \o join([i \in 1..Len(x.v) |->
                            <<Quote>> \o x.v[i].k \o <<Quote, ":">>
                              \o stringify(x.v[i].val)], <<",">>)
                 \o <<"}">>

(***************************************************************************)
(* JSON.parse: a recursive-descent parser over the characters.  A parse    *)
(* step returns [ok, val, pos]: whether a value was read, the value, and   *)
(* the position after it.                                                  *)
(***************************************************************************)
ParseFail == [ok |-> FALSE, val |-> Null, pos |-> 0]

ParseOk(val, pos) == [ok |-> TRUE, val |-> val, pos |-> pos]

RECURSIVE skipWs(_, _)
skipWs(s, i) ==
  IF i <= Len(s) /\ s[i] \in WhiteSpace THEN skipWs(s, i + 1) ELSE i

isDigit(c) == \E d \in 1..10 : Digits[d] = c

digitValue(c) == (CHOOSE d \in 1..10 : Digits[d] = c) - 1

RECURSIVE parseDigits(_, _, _)
parseDigits(s, i, acc) ==
  IF i <= Len(s) /\ isDigit(s[i])
    THEN parseDigits(s, i + 1, acc * 10 + digitValue(s[i]))
    ELSE ParseOk(Num(acc), i)

(* The characters of a string literal up to its closing quote; a control  *)
(* character or an escape is outside the literals of the model.            *)
RECURSIVE parseChars(_, _, _)
parseChars(s, i, acc) ==
  IF i > Len(s) \/ s[i] \in {"\n", "\t", "\r", "\\"} THEN ParseFail
  ELSE IF s[i] = Quote THEN ParseOk(Str(acc), i + 1)
  ELSE parseChars(s, i + 1, Append(acc, s[i]))

RECURSIVE parseValue(_, _)
RECURSIVE parseElements(_, _, _)
RECURSIVE parseMembers(_, _, _)

parseValue(s, i0) ==
  LET i == skipWs(s, i0)
  IN  IF i > Len(s) THEN ParseFail
      ELSE IF startsWithAt(s, <<"n","u","l","l">>, i) THEN ParseOk(Null, i + 4)
      ELSE IF startsWithAt(s, <<"t","r","u","e">>, i)
        THEN ParseOk(Bool(TRUE), i + 4)
      ELSE IF startsWithAt(s, <<"f","a","l","s","e">>, i)
        THEN ParseOk(Bool(FALSE), i + 5)
      ELSE IF isDigit(s[i])
        THEN IF s[i] = "0" /\ i < Len(s) /\ isDigit(s[i + 1])
               THEN ParseFail
               ELSE parseDigits(s, i, 0)
      ELSE IF s[i] = Quote THEN parseChars(s, i + 1, <<>>)
      ELSE IF s[i] = "["
        THEN LET j == skipWs(s, i + 1)
             IN  IF j <= Len(s) /\ s[j] = "]" THEN ParseOk(Arr(<<>>), j + 1)
                 ELSE parseElements(s, j, <<>>)
      ELSE IF s[i] = "{"
        THEN LET j == skipWs(s, i + 1)
             IN  IF j <= Len(s) /\ s[j] = "}" THEN ParseOk(Obj(<<>>), j + 1)
                 ELSE parseMembers(s, j, <<>>)
      ELSE ParseFail

(* element (',' element)* ']' *)
parseElements(s, i, acc) ==
  LET e == parseValue(s, i)
  IN  IF ~e.ok THEN ParseFail
      ELSE LET j == skipWs(s, e.pos)
           IN  IF j > Len(s) THEN ParseFail
               ELSE IF s[j] = "]" THEN ParseOk(Arr(Append(acc, e.val)), j + 1)
               ELSE IF s[j] = ","
                 THEN parseElements(s, j + 1, Append(acc, e.val))
               ELSE ParseFail

(* string ':' value (',' string ':' value)* '}' *)
parseMembers(s, i0, acc) ==
  LET i == skipWs(s, i0)
  IN  IF i > Len(s) \/ s[i] # Quote THEN ParseFail
      ELSE LET key == parseChars(s, i + 1, <<>>)
           IN  IF ~key.ok THEN ParseFail
               ELSE LET c == skipWs(s, key.pos)
                    IN  IF c > Len(s) \/ s[c] # ":" THEN ParseFail
                        ELSE LET e == parseValue(s, c + 1)
                             IN  IF ~e.ok THEN ParseFail
                                 ELSE LET j == skipWs(s, e.pos)
                                          m == Append(acc,
                                                 Member(key.val.v, e.val))
                                      IN  IF j > Len(s) THEN ParseFail
                                          ELSE IF s[j] = "}"
                                            THEN ParseOk(Obj(m), j + 1)
                                          ELSE IF s[j] = ","
                                            THEN parseMembers(s, j + 1, m)
                                          ELSE ParseFail

(* JSON.parse(text): [ok |-> FALSE] stands for the SyntaxError it throws. *)
JSONparse(text) ==
  LET r == parseValue(text, 1)
  IN  IF r.ok /\ skipWs(text, r.pos) = Len(text) + 1 THEN r ELSE ParseFail

(***************************************************************************)
(* Literals of the source.                                                 *)
(***************************************************************************)
(* route.ts:5 *)
maxDuration == 30

(* route.ts:260 *)
max_num_results == 10

(* route.ts:347, 380 *)
temperature == "0.3"

(* route.ts:37-233, one symbol for the whole template *)
BBS_SYSTEM_PROMPT == <<"BBS_SYSTEM_PROMPT">>

(* route.ts:327, one symbol for each marker line *)
VECTOR_DB_DATA == "===== VECTOR DB DATA ====="

END_VECTOR_DB_DATA == "===== END VECTOR DB DATA ====="

(* route.ts:311 *)
Separator == <<"\n","\n","-","-","-","\n","\n">>

(* route.ts:302 *)
PrimaryMarker ==
  <<"B","B","S","_","w","h","e","e","l","s",".","j","s","o","n">>

(* route.ts:21 *)
SensitiveDomain == <<"B","B","S","w","h","e","e","l","s",".","c","o","m">>

K_collection_url == <<"c","o","l","l","e","c","t","i","o","n","_","u","r","l">>

K_file_name == <<"f","i","l","e","_","n","a","m","e">>

K_filename == <<"f","i","l","e","n","a","m","e">>

GPT4o == "gpt-4o"

GPT4oMini == "gpt-4o-mini"

(***************************************************************************)
(* validateAndFilterUrls (route.ts:13-35).                                 *)
(***************************************************************************)
(* The end of the match of /https?:\/\/[^\s)]+/ that starts at i, or 0.    *)
urlBody(c) == c \notin WhiteSpace /\ c # ")"

RECURSIVE urlEnd(_, _)
urlEnd(text, j) ==
  IF j + 1 <= Len(text) /\ urlBody(text[j + 1]) THEN urlEnd(text, j + 1)
  ELSE j

urlMatchAt(text, i) ==
  LET b == IF startsWithAt(text, <<"h","t","t","p","s",":","/","/">>, i)
             THEN i + 8
           ELSE IF startsWithAt(text, <<"h","t","t","p",":","/","/">>, i)
             THEN i + 7
           ELSE 0
  IN  IF b # 0 /\ b <= Len(text) /\ urlBody(text[b]) THEN urlEnd(text, b)
      ELSE 0

(* text.match(urlPattern) || [] : the matches left to right, not          *)
(* overlapping.                                                            *)
RECURSIVE matchUrls(_, _)
matchUrls(text, i) ==
  IF i > Len(text) THEN <<>>
  ELSE LET e == urlMatchAt(text, i)
       IN  IF e # 0 THEN <<SubSeq(text, i, e)>> \o matchUrls(text, e + 1)
           ELSE matchUrls(text, i + 1)

foundUrls(text) == matchUrls(text, 1)

(* A wrong test that compares the prefix without regard to case as well. *)
isValid_LowerPrefix(url, validUrls) ==
  \E i \in 1..Len(validUrls) :
    startsWith(toLowerCase(url), toLowerCase(validUrls[i]))

(* route.ts:22-26 *)
isValid(url, validUrls) ==
  \E i \in 1..Len(validUrls) :
    \/ toLowerCase(validUrls[i]) = toLowerCase(url)
    \/ startsWith(url, validUrls[i])

WarnInvalidUrl(url) ==
  [level |-> "warn", msg |-> "Filtered out invalid BBS URL: ", arg |-> url]

RECURSIVE auditWarnings(_, _)

(* A wrong audit that tests the URLs of every domain. *)
auditWarnings_AnyDomain(urls, validUrls) ==
  LET bad == SelectSeq(urls, LAMBDA u : ~isValid(u, validUrls))
  IN  [i \in 1..Len(bad) |-> WarnInvalidUrl(bad[i])]

(* route.ts:19-32: the console.warn lines of the forEach, in order. *)
auditWarnings(urls, validUrls) ==
  IF urls = <<>> THEN <<>>
  ELSE (IF includes(Head(urls), SensitiveDomain)
           /\ ~isValid(Head(urls), validUrls)
          THEN <<WarnInvalidUrl(Head(urls))>> ELSE <<>>)
       \o auditWarnings(Tail(urls), validUrls)

(* A wrong audit that cuts the flagged URLs out of the text it returns. *)
RECURSIVE stripInvalid(_, _, _)
stripInvalid(text, i, validUrls) ==
  IF i > Len(text) THEN <<>>
  ELSE LET e == urlMatchAt(text, i)
       IN  IF e = 0 THEN <<text[i]>> \o stripInvalid(text, i + 1, validUrls)
           ELSE (IF includes(SubSeq(text, i, e), SensitiveDomain)
                    /\ ~isValid(SubSeq(text, i, e), validUrls)
                   THEN <<>> ELSE SubSeq(text, i, e))
                \o stripInvalid(text, e + 1, validUrls)

validateAndFilterUrls_Stripping(text, validUrls) ==
  [text     |-> stripInvalid(text, 1, validUrls),
   warnings |-> auditWarnings(foundUrls(text), validUrls)]

(* The value returned (filteredText) and the lines logged. *)
validateAndFilterUrls(text, validUrls) ==
  [text     |-> text,
   warnings |-> auditWarnings(foundUrls(text), validUrls)]

(***************************************************************************)
(* Query extraction and attachment detection (route.ts:239-248).           *)
(***************************************************************************)
TextPart(s) == [type |-> "text", text |-> Some(s), mediaType |-> Undefined]

FilePart(mt) == [type |-> "file", text |-> Undefined, mediaType |-> mt]

IsTextPart(part) == part.type = "text"

(* Array.prototype.join writes an undefined element as the empty string. *)
PartText(part) == IF part.text = Undefined THEN <<>> ELSE part.text[1]

(* A wrong extraction that joins the parts of every type. *)
userQueryOf_AllParts(lastMessage) ==
  LET parts == lastMessage.parts[1]
  IN  join([i \in 1..Len(parts) |-> PartText(parts[i])], <<" ">>)

(* route.ts:240-243 *)
userQueryOf(lastMessage) ==
  LET texts == SelectSeq(lastMessage.parts[1], IsTextPart)
  IN  join([i \in 1..Len(texts) |-> PartText(texts[i])], <<" ">>)

IsImagePart(part) ==
  /\ part.type = "file"
  /\ part.mediaType # Undefined
  /\ startsWith(part.mediaType[1], <<"i","m","a","g","e","/">>)

(* A wrong detection that looks at every message of the conversation. *)
hasImagesOf_AnyMessage(msgs) ==
  \E m \in 1..Len(msgs) :
    /\ msgs[m].parts # Undefined
    /\ \E i \in 1..Len(msgs[m].parts[1]) : IsImagePart(msgs[m].parts[1][i])

(* route.ts:246-248, on the conversation whose last message is inspected *)
hasImagesOf(msgs) ==
  LET parts == msgs[Len(msgs)].parts[1]
  IN  \E i \in 1..Len(parts) : IsImagePart(parts[i])

(* route.ts:236-240: what makes the statements before `try` throw. *)
Malformed(body) ==
  \/ ~body.validJson
  \/ body.messages = Undefined
  \/ body.messages[1] = <<>>
  \/ body.messages[1][Len(body.messages[1])].parts = Undefined

(* A wrong guard that searches whenever the untrimmed query is non-empty *)
(* or the message has any part at all.                                    *)
shouldSearch_AnyPart(msgs, query) ==
  query # <<>> \/ msgs[Len(msgs)].parts[1] # <<>>

(* route.ts:255 *)
shouldSearch(msgs, query) == trim(query) # <<>>

(***************************************************************************)
(* Retrieval processing (route.ts:264-321).                                *)
(***************************************************************************)
(* route.ts:266-269, 293-296 *)
contentString(result) ==
  IF result.content.t = "str" THEN result.content.v
  ELSE stringify(result.content)

(* A wrong extraction that pushes the URL in lower case. *)
urlOf_Lowered(x) ==
  LET f == GetField(x, K_collection_url)
  IN  IF f # Undefined /\ Truthy(f[1]) THEN <<toLowerCase(f[1].v)>> ELSE <<>>

(* `x.collection_url` when truthy, as the list of what is pushed. *)
urlOf(x) ==
  LET f == GetField(x, K_collection_url)
  IN  IF f # Undefined /\ Truthy(f[1]) THEN <<f[1].v>> ELSE <<>>

(* route.ts:277-281: the inner forEach; reading a property of a null item *)
(* throws, the enclosing catch ends the extraction for this result and    *)
(* what was pushed before stays.                                           *)
RECURSIVE itemUrls(_, _)
itemUrls(items, i) ==
  IF i > Len(items) \/ items[i].t = "null" THEN <<>>
  ELSE urlOf(items[i]) \o itemUrls(items, i + 1)

(* A wrong extraction that reads only the object itself, not a sequence. *)
resultUrls_DirectOnly(result) ==
  LET parsed == JSONparse(contentString(result))
  IN  IF ~parsed.ok \/ parsed.val.t = "null" THEN <<>>
      ELSE urlOf(parsed.val)

(* route.ts:265-286, for one result *)
resultUrls(result) ==
  LET parsed == JSONparse(contentString(result))
  IN  IF ~parsed.ok THEN <<>>
      ELSE IF parsed.val.t = "null" THEN <<>>
      ELSE urlOf(parsed.val)
           \o (IF parsed.val.t = "arr" THEN itemUrls(parsed.val.v, 1)
               ELSE <<>>)

RECURSIVE extractUrls(_)

(* A wrong extraction that a content that does not parse brings to an end. *)
extractUrls_StopAtFailure(data) ==
  LET bad == {i \in 1..Len(data) : ~JSONparse(contentString(data[i])).ok}
      n == IF bad = {} THEN Len(data)
           ELSE (CHOOSE i \in bad : \A j \in bad : i <= j) - 1
      F[i \in 0..n] ==
        IF i = 0 THEN <<>> ELSE F[i - 1] \o resultUrls(data[i])
  IN  F[n]

(* route.ts:265-286, for all results *)
extractUrls(data) ==
  IF data = <<>> THEN <<>>
  ELSE resultUrls(Head(data)) \o extractUrls(Tail(data))

(* route.ts:299-300 *)
fileNameOf(result) ==
  LET metadata == IF result.metadata = Undefined THEN Obj(<<>>)
                  ELSE result.metadata[1]
      a == GetField(metadata, K_file_name)
      b == GetField(metadata, K_filename)
  IN  IF a # Undefined /\ Truthy(a[1]) THEN a[1]
      ELSE IF b # Undefined /\ Truthy(b[1]) THEN b[1]
      ELSE Str(<<>>)

(* fileName.toLowerCase is not a function when fileName is not a string *)
fileNameThrows(result) == fileNameOf(result).t # "str"

(* The test the comment of route.ts:298 describes. *)
isPrimarySource_CaseInsensitive(result) ==
  includes(toLowerCase(fileNameOf(result).v), toLowerCase(PrimaryMarker))

(* route.ts:302 *)
isPrimarySource(result) ==
  includes(toLowerCase(fileNameOf(result).v), PrimaryMarker)

IsPrimaryResult(result) == isPrimarySource(result)

(* A wrong partition that leaves out a result whose content is empty. *)
IsOtherResult_NonEmpty(result) ==
  ~isPrimarySource(result) /\ contentString(result) # <<>>

IsOtherResult(result) == ~isPrimarySource(result)

ContentsOf(data) == [i \in 1..Len(data) |-> contentString(data[i])]

(* route.ts:289-321: the TypeError of the partition loop, or the two      *)
(* groups, the context string and the log lines.                           *)
partition(data) ==
  IF \E i \in 1..Len(data) : fileNameThrows(data[i])
    THEN [threw |-> TRUE, BBSWheelsData |-> <<>>, otherData |-> <<>>,
          allData |-> <<>>, contextText |-> <<>>, log |-> <<>>]
    ELSE LET BBSWheelsData == ContentsOf(SelectSeq(data, IsPrimaryResult))
             otherData == ContentsOf(SelectSeq(data, IsOtherResult))
             allData == BBSWheelsData \o otherData
         IN  [threw |-> FALSE,
              BBSWheelsData |-> BBSWheelsData,
              otherData |-> otherData,
              allData |-> allData,
              contextText |-> join(allData, Separator),
              log |->
                (IF Len(BBSWheelsData) > 0
                   THEN <<[level |-> "log",
                           msg |-> "results from BBS_wheels.json (primary source)",
                           arg |-> <<Len(BBSWheelsData)>>]>>
                   ELSE <<>>)
                \o (IF Len(otherData) > 0
                      THEN <<[level |-> "log",
                              msg |-> "results from secondary sources",
                              arg |-> <<Len(otherData)>>]>>
                      ELSE <<>>)]

(* A wrong prompt that wraps the context in markers even when it is empty *)
systemPromptWithContext_AlwaysMarked(contextText) ==
  BBS_SYSTEM_PROMPT \o <<"\n","\n">>
    \o <<"\n","\n",VECTOR_DB_DATA,"\n">> \o contextText
    \o <<"\n",END_VECTOR_DB_DATA,"\n">>

(* route.ts:325-327 *)
systemPromptWithContext(contextText) ==
  BBS_SYSTEM_PROMPT \o <<"\n","\n">>
    \o (IF contextText # <<>>
          THEN <<"\n","\n",VECTOR_DB_DATA,"\n">> \o contextText
                 \o <<"\n",END_VECTOR_DB_DATA,"\n">>
          ELSE <<>>)

(***************************************************************************)
(* Inputs: request bodies, search results, generated chunks.               *)
(***************************************************************************)
HTTPS == <<"h","t","t","p","s",":","/","/">>

URL_A == HTTPS \o SensitiveDomain \o <<"/","a">>

URL_B == HTTPS \o SensitiveDomain \o <<"/","b">>

URL_E == HTTPS \o SensitiveDomain \o <<"/","e">>

URL_EVIL == HTTPS \o SensitiveDomain \o <<"/","e","v","i","l">>

URL_EVIL_LOWER == toLowerCase(URL_EVIL)

URL_OTHER == HTTPS \o <<"e","x","a","m","p","l","e",".","c","o","m","/","x">>

FindWheels == <<"f","i","n","d"," ","w","h","e","e","l","s">>

ImagePng == <<"i","m","a","g","e","/","p","n","g">>

ApplicationPdf == <<"a","p","p","l","i","c","a","t","i","o","n","/","p","d","f">>

Message(role, parts) == [role |-> role, parts |-> Some(parts)]

Body(msgs) == [validJson |-> TRUE, messages |-> Some(msgs)]

(* "find wheels" *)
BodyText == Body(<<Message("user", <<TextPart(FindWheels)>>)>>)

(* "find wheels" and an image *)
BodyTextImage ==
  Body(<<Message("user", <<TextPart(FindWheels), FilePart(Some(ImagePng))>>)>>)

(* an image only *)
BodyImageOnly == Body(<<Message("user", <<FilePart(Some(ImagePng))>>)>>)

(* a PDF and a file without media type, after an earlier message that    *)
(* carried text and an image and an answer that named a URL               *)
BodyFilesOnly ==
  Body(<<Message("user", <<TextPart(FindWheels), FilePart(Some(ImagePng))>>),
         Message("assistant", <<TextPart(URL_B)>>),
         Message("user", <<FilePart(Some(ApplicationPdf)),
                           FilePart(Undefined)>>)>>)

(* two text parts, " a" and "b ", around a PDF, after an earlier image *)
BodyTwoTexts ==
  Body(<<Message("user", <<FilePart(Some(ImagePng))>>),
         Message("user", <<TextPart(<<" ","a">>),
                           FilePart(Some(ApplicationPdf)),
                           TextPart(<<"b"," ">>)>>)>>)

(* text parts that are blank *)
BodyBlankText ==
  Body(<<Message("user", <<TextPart(<<" ">>), TextPart(<<>>)>>)>>)

BodyInvalidJson == [validJson |-> FALSE, messages |-> Undefined]

BodyNoMessages == [validJson |-> TRUE, messages |-> Undefined]

BodyEmptyMessages == Body(<<>>)

BodyNoParts ==
  Body(<<Message("user", <<TextPart(FindWheels)>>),
         [role |-> "user", parts |-> Undefined]>>)

Bodies ==
  {BodyTextImage, BodyImageOnly, BodyFilesOnly, BodyTwoTexts, BodyBlankText,
   BodyInvalidJson, BodyNoMessages, BodyEmptyMessages, BodyNoParts}

Result(content, metadata) == [content |-> content, metadata |-> metadata]

FileNameMeta(k, name) == Some(Obj(<<Member(k, name)>>))

UrlObject(url) == Obj(<<Member(K_collection_url, Str(url))>>)

(* a JSON string with a collection_url, from BBS_wheels.json *)
ResPrimary ==
  Result(Str(stringify(UrlObject(URL_A))),
         FileNameMeta(K_file_name, Str(PrimaryMarker)))

(* plain text from other.json, named by `filename` after an empty file_name *)
ResOther ==
  Result(Str(<<"r","i","m","s">>),
         Some(Obj(<<Member(K_file_name, Str(<<>>)),
                    Member(K_filename,
                           Str(<<"o","t","h","e","r",".","j","s","o","n">>))>>)))

(* a structured sequence: a number, then an object with a collection_url *)
ResSequence ==
  Result(Arr(<<Num(1), UrlObject(URL_E)>>), Undefined)

(* a structured sequence whose first element is null *)
ResNullFirst ==
  Result(Arr(<<Null, UrlObject(URL_B)>>),
         FileNameMeta(K_filename, Str(toLowerCase(PrimaryMarker))))

(* the literal null, with a file name that is not a string *)
ResBadName ==
  Result(Str(<<"n","u","l","l">>), FileNameMeta(K_file_name, Num(7)))

(* an object whose collection_url is the lower-case spelling of URL_EVIL, *)
(* and an empty collection_url before it                                  *)
ResLowerUrl ==
  Result(Arr(<<UrlObject(<<>>), UrlObject(URL_EVIL_LOWER)>>),
         FileNameMeta(K_file_name, Str(PrimaryMarker)))

(* empty content *)
ResEmpty == Result(Str(<<>>), Undefined)

Results ==
  {ResPrimary, ResOther, ResSequence, ResNullFirst, ResBadName, ResLowerUrl,
   ResEmpty}

SeqsUpTo(S, n) == UNION {[1..k -> S] : k \in 0..n}

(* The search returns at most max_num_results results. *)
Min(a, b) == IF a <= b THEN a ELSE b

ResultLists == SeqsUpTo(Results, Min(MaxResults, max_num_results))

(* the URL of the spec's example *)
ChunkEvil == <<"s","e","e"," ">> \o URL_EVIL

(* a trusted URL in parentheses, a URL of another domain, the lower-case  *)
(* spelling of the sensitive domain, and the URL of the example           *)
ChunkMixed ==
  <<"(">> \o URL_A \o <<")"," ">> \o URL_OTHER \o <<"\n">> \o URL_EVIL_LOWER
    \o <<" ">> \o URL_EVIL

(* the URL of the example at the end of a sentence *)
ChunkEvilDot == <<"a","t"," ">> \o URL_EVIL \o <<".">>

(* no URL; after ChunkEvil it lengthens the URL that ends that chunk *)
ChunkPlain == <<"w","h","e","e","l","s",".","c","o","m","/","e","v","i","l">>

Chunks == {ChunkEvil, ChunkMixed, ChunkEvilDot, ChunkPlain}

(* The smaller inputs of the specification of concurrent requests. *)
ConcBodies == {BodyText, BodyInvalidJson}

ConcResultLists == {<<ResPrimary>>, <<ResSequence, ResOther>>}

ConcChunks == {ChunkEvil}

(* Whether a call of streamText may throw at the call. *)
Throws == BOOLEAN

ConcThrows == {FALSE}

(***************************************************************************)
(* State.  Every variable is a function of the request: the locals of one  *)
(* invocation of POST and what the invocation has done outside.            *)
(***************************************************************************)
VARIABLES
  pc,                  \* position of the invocation
  body,                \* the request body received, if any
  userQuery,           \* route.ts:240
  hasImages,           \* route.ts:246
  searchCalls,         \* calls of vectorStores.search issued
  searchResults,       \* searchResults.data, once the search has returned
  validCollectionUrls, \* route.ts:253
  allData,             \* route.ts:310
  contextText,         \* route.ts:252
  genCalls,            \* calls of streamText issued, with their outcome
  produced,            \* chunks the generation service has produced
  delivered,           \* chunks written to the response stream
  validated,           \* route.ts:351, once onFinish has run
  log                  \* console lines written by the invocation

vars ==
  <<pc, body, userQuery, hasImages, searchCalls, searchResults,
    validCollectionUrls, allData, contextText, genCalls, produced,
    delivered, validated, log>>

Requests == DOMAIN pc

messagesOf(r) == body[r][1].messages[1]

(* The text of all chunks, as onFinish receives it. *)
textOf(chunks) == join(chunks, <<>>)

InitOver(R) ==
  /\ pc = [r \in R |-> "idle"]
  /\ body = [r \in R |-> Undefined]
  /\ userQuery = [r \in R |-> <<>>]
  /\ hasImages = [r \in R |-> FALSE]
  /\ searchCalls = [r \in R |-> <<>>]
  /\ searchResults = [r \in R |-> Undefined]
  /\ validCollectionUrls = [r \in R |-> <<>>]
  /\ allData = [r \in R |-> <<>>]
  /\ contextText = [r \in R |-> <<>>]
  /\ genCalls = [r \in R |-> <<>>]
  /\ produced = [r \in R |-> <<>>]
  /\ delivered = [r \in R |-> <<>>]
  /\ validated = [r \in R |-> Undefined]
  /\ log = [r \in R |-> <<>>]

Init == InitOver({1})

InitConc == InitOver(1..NumRequests)

(***************************************************************************)
(* The handler POST (route.ts:235-389).                                    *)
(***************************************************************************)
(* A wrong scope: one array at module level, shared by every invocation. *)
UrlStore_ModuleLevel(r) == 1

(* route.ts:253: the array is created by the invocation that uses it. *)
UrlStore(r) == r

ErrorLine ==
  [level |-> "error", msg |-> "Error querying OpenAI Vector Store:",
   arg |-> <<>>]

AbortLine(path) ==
  [level |-> "log",
   msg |-> IF path = "primary" THEN "Stream aborted by client"
           ELSE "Stream aborted by client (fallback path)",
   arg |-> <<>>]

FlaggedLine ==
  [level |-> "warn",
   msg |-> "Response contained invalid URLs that were flagged", arg |-> <<>>]

(* One call of streamText: its arguments, the path that made it, and its  *)
(* outcome: "threw" at the call, else "streaming" until the stream ends   *)
(* as "finished", "errored", "aborted" or "timedout".                     *)
GenCall(r, model, system, path, history, threw) ==
  [model |-> model, system |-> system, temperature |-> temperature,
   abortSignal |-> r, history |-> history, path |-> path,
   status |-> IF threw THEN "threw" ELSE "streaming"]

(* A wrong fallback that keeps the lighter model variant. *)
FallbackModel_Mini == GPT4oMini

(* route.ts:378 *)
FallbackModel == GPT4o

(* A wrong selection that always takes the lighter variant. *)
PrimaryModel_AlwaysMini(img) == GPT4oMini

(* route.ts:341 *)
PrimaryModel(img) == IF img THEN GPT4o ELSE GPT4oMini

(* route.ts:362-388: the catch block.  calls are the calls made so far,   *)
(* threw2 whether the streamText call of the catch block throws, which    *)
(* nothing catches.                                                       *)
fallbackRun(r, calls, history, threw2) ==
  [calls |-> Append(calls, GenCall(r, FallbackModel, BBS_SYSTEM_PROMPT,
                                   "fallback", history, threw2)),
   log   |-> <<ErrorLine>>,
   pc    |-> IF threw2 THEN "failed" ELSE "streaming"]

(* route.ts:324-361: prompt assembly and the streamText call of the try   *)
(* block; when that call throws, the catch block runs.                    *)
primaryRun(r, ctx, img, history, threw1, threw2) ==
  LET call == GenCall(r, PrimaryModel(img), systemPromptWithContext(ctx),
                      "primary", history, threw1)
  IN  IF threw1 THEN fallbackRun(r, <<call>>, history, threw2)
      ELSE [calls |-> <<call>>, log |-> <<>>, pc |-> "streaming"]

(* The outcome of the latest call of a list of calls. *)
SetStatus(calls, st) == [calls EXCEPT ![Len(calls)].status = st]

LastCall(r) == genCalls[r][Len(genCalls[r])]

(* A wrong handler whose request parsing sits inside the try block. *)
RejectRequest_Caught(r, b, threw2) ==
  LET run == fallbackRun(r, <<>>, <<>>, threw2)
  IN  /\ pc' = [pc EXCEPT ![r] = run.pc]
      /\ body' = [body EXCEPT ![r] = Some(b)]
      /\ genCalls' = [genCalls EXCEPT ![r] = run.calls]
      /\ log' = [log EXCEPT ![r] = run.log]
      /\ UNCHANGED <<userQuery, hasImages, searchCalls, searchResults,
                     validCollectionUrls, allData, contextText, produced,
                     delivered, validated>>

(* route.ts:236-248: an error before `try` leaves POST; the request fails. *)
RejectRequest(r, b, threw2) ==
  /\ pc' = [pc EXCEPT ![r] = "failed"]
  /\ body' = [body EXCEPT ![r] = Some(b)]
  /\ UNCHANGED <<userQuery, hasImages, searchCalls, searchResults,
                 validCollectionUrls, allData, contextText, genCalls,
                 produced, delivered, validated, log>>

(* route.ts:235-262, and 324-361 when no search is made: POST up to its   *)
(* first suspension.                                                      *)
Receive(r, b, threw1, threw2) ==
  /\ pc[r] = "idle"
  /\ IF Malformed(b) THEN RejectRequest(r, b, threw2)
     ELSE
       LET msgs  == b.messages[1]
           query == userQueryOf(msgs[Len(msgs)])
           img   == hasImagesOf(msgs)
           run   == primaryRun(r, <<>>, img, msgs, threw1, threw2)
       IN  /\ body' = [body EXCEPT ![r] = Some(b)]
           /\ userQuery' = [userQuery EXCEPT ![r] = query]
           /\ hasImages' = [hasImages EXCEPT ![r] = img]
           /\ contextText' = [contextText EXCEPT ![r] = <<>>]
           /\ validCollectionUrls' =
                [validCollectionUrls EXCEPT ![UrlStore(r)] = <<>>]
           /\ IF shouldSearch(msgs, query)
                THEN /\ searchCalls' =
                          [searchCalls EXCEPT ![r] =
                             Append(@, [query |-> query,
                                        max_num_results |-> max_num_results,
                                        status |-> "pending"])]
                     /\ pc' = [pc EXCEPT ![r] = "searching"]
                     /\ UNCHANGED <<genCalls, log>>
                ELSE /\ genCalls' = [genCalls EXCEPT ![r] = run.calls]
                     /\ log' = [log EXCEPT ![r] = @ \o run.log]
                     /\ pc' = [pc EXCEPT ![r] = run.pc]
                     /\ UNCHANGED searchCalls
           /\ UNCHANGED <<searchResults, allData, produced, delivered,
                          validated>>

(* route.ts:256-361: the search returns data; URL extraction, partition,  *)
(* prompt assembly and the streamText call follow without suspension.     *)
SearchReturns(r, data, threw1, threw2) ==
  /\ pc[r] = "searching"
  /\ LET part == partition(data)
         urls == validCollectionUrls[UrlStore(r)] \o extractUrls(data)
         run  == IF part.threw
                   THEN fallbackRun(r, <<>>, messagesOf(r), threw2)
                   ELSE primaryRun(r, part.contextText, hasImages[r],
                                   messagesOf(r), threw1, threw2)
     IN  /\ searchResults' = [searchResults EXCEPT ![r] = Some(data)]
         /\ searchCalls' = [searchCalls EXCEPT ![r] = SetStatus(@, "returned")]
         /\ validCollectionUrls' =
              [validCollectionUrls EXCEPT ![UrlStore(r)] = urls]
         /\ allData' = [allData EXCEPT ![r] = part.allData]
         /\ contextText' = [contextText EXCEPT ![r] = part.contextText]
         /\ genCalls' = [genCalls EXCEPT ![r] = run.calls]
         /\ log' = [log EXCEPT ![r] = @ \o part.log \o run.log]
         /\ pc' = [pc EXCEPT ![r] = run.pc]
  /\ UNCHANGED <<body, userQuery, hasImages, produced, delivered, validated>>

(* A wrong handler that issues the search again after it threw. *)
SearchThrows_Retry(r, threw2) ==
  /\ pc[r] = "searching"
  /\ Len(searchCalls[r]) < 2
  /\ searchCalls' =
       [searchCalls EXCEPT ![r] =
          Append(SetStatus(@, "threw"),
                 [query |-> userQuery[r], max_num_results |-> max_num_results,
                  status |-> "pending"])]
  /\ UNCHANGED <<pc, body, userQuery, hasImages, searchResults,
                 validCollectionUrls, allData, contextText, genCalls,
                 produced, delivered, validated, log>>

(* route.ts:256, 362-388: the search call throws. *)
SearchThrows(r, threw2) ==
  /\ pc[r] = "searching"
  /\ LET run == fallbackRun(r, <<>>, messagesOf(r), threw2)
     IN  /\ genCalls' = [genCalls EXCEPT ![r] = run.calls]
         /\ log' = [log EXCEPT ![r] = @ \o run.log]
         /\ pc' = [pc EXCEPT ![r] = run.pc]
  /\ searchCalls' = [searchCalls EXCEPT ![r] = SetStatus(@, "threw")]
  /\ UNCHANGED <<body, userQuery, hasImages, searchResults,
                 validCollectionUrls, allData, contextText, produced,
                 delivered, validated>>

(* A wrong handler that audits the text so far at every chunk. *)
StreamChunk_Auditing(r, chunk) ==
  /\ pc[r] = "streaming"
  /\ Len(produced[r]) < MaxChunks
  /\ produced' = [produced EXCEPT ![r] = Append(@, chunk)]
  /\ delivered' = [delivered EXCEPT ![r] = Append(@, chunk)]
  /\ LET text  == textOf(Append(produced[r], chunk))
         audit == validateAndFilterUrls(text,
                                        validCollectionUrls[UrlStore(r)])
     IN  IF LastCall(r).path = "primary"
           THEN /\ validated' = [validated EXCEPT ![r] = Some(audit.text)]
                /\ log' = [log EXCEPT ![r] = @ \o audit.warnings]
           ELSE UNCHANGED <<validated, log>>
  /\ UNCHANGED <<pc, body, userQuery, hasImages, searchCalls, searchResults,
                 validCollectionUrls, allData, contextText, genCalls>>

(* route.ts:361, 387: toUIMessageStreamResponse passes each chunk of the  *)
(* generation on as it is produced.                                       *)
StreamChunk(r, chunk) ==
  /\ pc[r] = "streaming"
  /\ Len(produced[r]) < MaxChunks
  /\ produced' = [produced EXCEPT ![r] = Append(@, chunk)]
  /\ delivered' = [delivered EXCEPT ![r] = Append(@, chunk)]
  /\ UNCHANGED <<pc, body, userQuery, hasImages, searchCalls, searchResults,
                 validCollectionUrls, allData, contextText, genCalls,
                 validated, log>>

(* A wrong handler that audits the text of the fallback path as well. *)
StreamFinish_AuditsAlways(r) ==
  /\ pc[r] = "streaming"
  /\ LET text  == textOf(produced[r])
         audit == validateAndFilterUrls(text,
                                        validCollectionUrls[UrlStore(r)])
     IN  /\ validated' = [validated EXCEPT ![r] = Some(audit.text)]
         /\ log' = [log EXCEPT ![r] = @ \o audit.warnings]
  /\ genCalls' = [genCalls EXCEPT ![r] = SetStatus(@, "finished")]
  /\ pc' = [pc EXCEPT ![r] = "done"]
  /\ UNCHANGED <<body, userQuery, hasImages, searchCalls, searchResults,
                 validCollectionUrls, allData, contextText, produced,
                 delivered>>

(* route.ts:349-355: the generation ends; onFinish exists on the primary  *)
(* path only.                                                             *)
StreamFinish(r) ==
  /\ pc[r] = "streaming"
  /\ LET text  == textOf(produced[r])
         audit == validateAndFilterUrls(text,
                                        validCollectionUrls[UrlStore(r)])
     IN  IF LastCall(r).path = "primary"
           THEN /\ validated' = [validated EXCEPT ![r] = Some(audit.text)]
                /\ log' = [log EXCEPT ![r] =
                             @ \o audit.warnings
                               \o (IF audit.text # text THEN <<FlaggedLine>>
                                   ELSE <<>>)]
           ELSE UNCHANGED <<validated, log>>
  /\ genCalls' = [genCalls EXCEPT ![r] = SetStatus(@, "finished")]
  /\ pc' = [pc EXCEPT ![r] = "done"]
  /\ UNCHANGED <<body, userQuery, hasImages, searchCalls, searchResults,
                 validCollectionUrls, allData, contextText, produced,
                 delivered>>

(* The generation fails while streaming; POST has returned, nothing       *)
(* catches it.                                                            *)
StreamError(r) ==
  /\ pc[r] = "streaming"
  /\ genCalls' = [genCalls EXCEPT ![r] = SetStatus(@, "errored")]
  /\ pc' = [pc EXCEPT ![r] = "failed"]
  /\ UNCHANGED <<body, userQuery, hasImages, searchCalls, searchResults,
                 validCollectionUrls, allData, contextText, produced,
                 delivered, validated, log>>

(* A wrong handler whose stream goes on after the abort is logged. *)
Abort_KeepsStreaming(r) ==
  /\ pc[r] = "streaming"
  /\ LastCall(r).status = "streaming"
  /\ genCalls' = [genCalls EXCEPT ![r] = SetStatus(@, "aborted")]
  /\ log' = [log EXCEPT ![r] = Append(@, AbortLine(LastCall(r).path))]
  /\ UNCHANGED <<pc, body, userQuery, hasImages, searchCalls, searchResults,
                 validCollectionUrls, allData, contextText, produced,
                 delivered, validated>>

(* route.ts:348, 356-358, 381-384: the caller aborts req.signal during    *)
(* the generation.                                                        *)
Abort(r) ==
  /\ pc[r] = "streaming"
  /\ genCalls' = [genCalls EXCEPT ![r] = SetStatus(@, "aborted")]
  /\ log' = [log EXCEPT ![r] = Append(@, AbortLine(LastCall(r).path))]
  /\ pc' = [pc EXCEPT ![r] = "aborted"]
  /\ UNCHANGED <<body, userQuery, hasImages, searchCalls, searchResults,
                 validCollectionUrls, allData, contextText, produced,
                 delivered, validated>>

(* route.ts:5: the platform ends an invocation that exceeds maxDuration. *)
Timeout(r) ==
  /\ pc[r] \in {"searching", "streaming"}
  /\ genCalls' = [genCalls EXCEPT ![r] =
                    IF @ = <<>> THEN @ ELSE SetStatus(@, "timedout")]
  /\ searchCalls' = [searchCalls EXCEPT ![r] =
                       IF pc[r] = "searching" THEN SetStatus(@, "timedout")
                       ELSE @]
  /\ pc' = [pc EXCEPT ![r] = "failed"]
  /\ UNCHANGED <<body, userQuery, hasImages, searchResults,
                 validCollectionUrls, allData, contextText, produced,
                 delivered, validated, log>>

(* The steps of any request, with their inputs drawn from the given sets. *)
ReceiveStep(B, T) ==
  \E r \in Requests, b \in B, t1 \in T, t2 \in T : Receive(r, b, t1, t2)

SearchReturnsStep(L, T) ==
  \E r \in Requests, data \in L, t1 \in T, t2 \in T :
    SearchReturns(r, data, t1, t2)

SearchThrowsStep(T) == \E r \in Requests, t2 \in T : SearchThrows(r, t2)

StreamChunkStep(C) == \E r \in Requests, chunk \in C : StreamChunk(r, chunk)

StreamFinishStep == \E r \in Requests : StreamFinish(r)

StreamErrorStep == \E r \in Requests : StreamError(r)

AbortStep == \E r \in Requests : Abort(r)

TimeoutStep == \E r \in Requests : Timeout(r)

Next ==
  \/ ReceiveStep(Bodies, Throws)
  \/ SearchReturnsStep(ResultLists, Throws)
  \/ SearchThrowsStep(Throws)
  \/ StreamChunkStep(Chunks)
  \/ StreamFinishStep
  \/ StreamErrorStep
  \/ AbortStep
  \/ TimeoutStep

Spec == Init /\ [][Next]_vars

(* Several requests handled concurrently: their steps interleave. *)
NextConc ==
  \/ ReceiveStep(ConcBodies, ConcThrows)
  \/ SearchReturnsStep(ConcResultLists, ConcThrows)
  \/ SearchThrowsStep(ConcThrows)
  \/ StreamChunkStep(ConcChunks)
  \/ StreamFinishStep
  \/ StreamErrorStep
  \/ AbortStep
  \/ TimeoutStep

SpecConc == InitConc /\ [][NextConc]_vars

(***************************************************************************)
(* Properties.                                                             *)
(***************************************************************************)
Range(f) == {f[i] : i \in DOMAIN f}

(* The request was received and its body passed route.ts:236-248. *)
Accepted(r) ==
  /\ body[r] # Undefined
  /\ body[r][1] \notin
       {BodyInvalidJson, BodyNoMessages, BodyEmptyMessages, BodyNoParts}

LastParts(r) == messagesOf(r)[Len(messagesOf(r))].parts[1]

(* The search of r returned and its results were processed without error. *)
Processed(r) ==
  /\ searchResults[r] # Undefined
  /\ \A i \in 1..Len(searchResults[r][1]) :
       fileNameOf(searchResults[r][1][i]).t = "str"

HasMarker(result) ==
  includes(toLowerCase(fileNameOf(result).v), toLowerCase(PrimaryMarker))

LacksMarker(result) == ~HasMarker(result)

(* C1: in the context string every result whose file name contains         *)
(* "BBS_wheels.json", compared without regard to case, comes before every  *)
(* result that does not, and each group keeps the retrieval order.         *)
C1_PrimaryFirst ==
  \A r \in Requests :
    Processed(r) =>
      LET data == searchResults[r][1]
          expected == ContentsOf(SelectSeq(data, HasMarker))
                        \o ContentsOf(SelectSeq(data, LacksMarker))
      IN  /\ allData[r] = expected
          /\ contextText[r] = join(expected, Separator)

(* The collection_url strings a result carries: on the structure its      *)
(* content parses to, or on an element when that structure is a sequence. *)
UrlField(x) ==
  IF x.t = "obj" /\ GetField(x, K_collection_url) # Undefined
       /\ GetField(x, K_collection_url)[1].t = "str"
       /\ GetField(x, K_collection_url)[1].v # <<>>
    THEN {GetField(x, K_collection_url)[1].v}
    ELSE {}

CarriedUrls(result) ==
  LET parsed == JSONparse(contentString(result))
  IN  IF ~parsed.ok THEN {}
      ELSE UrlField(parsed.val)
             \cup (IF parsed.val.t = "arr"
                     THEN UNION {UrlField(parsed.val.v[i]) :
                                   i \in 1..Len(parsed.val.v)}
                     ELSE {})

(* C2: once the results of the search are processed, every collection_url *)
(* a result carries, directly or on any element of a sequence, is in the  *)
(* Trusted URL Set of the request.                                        *)
C2_CarriedUrlsTrusted ==
  \A r \in Requests :
    searchResults[r] # Undefined =>
      \A i \in 1..Len(searchResults[r][1]) :
        CarriedUrls(searchResults[r][1][i])
          \subseteq Range(validCollectionUrls[r])

SearchThrew(r) ==
  searchCalls[r] # <<>> /\ searchCalls[r][1].status = "threw"

ProcessingThrew(r) == searchResults[r] # Undefined /\ ~Processed(r)

Rejected(r) == body[r] # Undefined /\ ~Accepted(r)

IsFallbackCall(r, call) ==
  /\ call.path = "fallback"
  /\ call.system = BBS_SYSTEM_PROMPT
  /\ call.model = "gpt-4o"
  /\ call.temperature = "0.3"
  /\ call.abortSignal = r

(* C3 as claimed: whenever the search throws or any step before the       *)
(* generation raises an error, generation is started with the bare        *)
(* template, gpt-4o, temperature 0.3 and the request's signal.            *)
C3_AnyErrorFallsBack ==
  \A r \in Requests :
    (Rejected(r) \/ SearchThrew(r) \/ ProcessingThrew(r)) =>
      /\ genCalls[r] # <<>>
      /\ IsFallbackCall(r, genCalls[r][1])

(* C3 as amended: whenever the search throws or the processing of its     *)
(* results raises an error, exactly one generation is started, with the   *)
(* bare template, gpt-4o, temperature 0.3 and the request's signal.       *)
C3_RetrievalErrorFallsBack ==
  \A r \in Requests :
    (SearchThrew(r) \/ ProcessingThrew(r)) =>
      /\ Len(genCalls[r]) = 1
      /\ IsFallbackCall(r, genCalls[r][1])

C3_Witness ==
  \E r \in Requests :
    /\ SearchThrew(r)
    /\ pc[r] = "done"
    /\ produced[r] # <<>>
    /\ delivered[r] = produced[r]

HasMarkers(system) ==
  \E i \in 1..Len(system) :
    system[i] \in {"===== VECTOR DB DATA =====",
                   "===== END VECTOR DB DATA ====="}

OnlyNonText(r) == \A i \in 1..Len(LastParts(r)) : LastParts(r)[i].type # "text"

(* C4: a request whose final message has only non-text parts issues no    *)
(* search, and no system prompt passed to generation holds a context      *)
(* marker.                                                                *)
C4_NonTextNoRetrieval ==
  \A r \in Requests :
    (Accepted(r) /\ OnlyNonText(r)) =>
      /\ searchCalls[r] = <<>>
      /\ \A i \in 1..Len(genCalls[r]) : ~HasMarkers(genCalls[r][i].system)

C4_Witness ==
  \E r \in Requests :
    /\ Accepted(r)
    /\ OnlyNonText(r)
    /\ LastParts(r) # <<>>
    /\ pc[r] = "done"
    /\ LastCall(r).path = "primary"

FinalMessageHasImage(r) ==
  \E i \in 1..Len(LastParts(r)) :
    /\ LastParts(r)[i].type = "file"
    /\ LastParts(r)[i].mediaType # Undefined
    /\ Len(LastParts(r)[i].mediaType[1]) >= 6
    /\ SubSeq(LastParts(r)[i].mediaType[1], 1, 6)
         = <<"i","m","a","g","e","/">>

(* C5: the visual flag is true exactly when the final message has a file  *)
(* part whose media type begins with "image/"; a visual request always    *)
(* generates with gpt-4o, a non-visual one with gpt-4o-mini on the        *)
(* primary path.                                                          *)
C5_VisualFlag ==
  \A r \in Requests :
    Accepted(r) =>
      /\ hasImages[r] = FinalMessageHasImage(r)
      /\ \A i \in 1..Len(genCalls[r]) :
           /\ hasImages[r] => genCalls[r][i].model = "gpt-4o"
           /\ (~hasImages[r] /\ genCalls[r][i].path = "primary")
                => genCalls[r][i].model = "gpt-4o-mini"

C5_Witness ==
  \E r \in Requests :
    /\ Accepted(r)
    /\ hasImages[r]
    /\ Processed(r)
    /\ searchResults[r][1] # <<>>
    /\ Len(genCalls[r]) = 1
    /\ LastCall(r).path = "primary"
    /\ LastCall(r).model = "gpt-4o"
    /\ pc[r] = "done"

GeneratedText(r) == textOf(produced[r])

SensitiveUrls(r) ==
  {u \in Range(foundUrls(GeneratedText(r))) : includes(u, SensitiveDomain)}

Warned(r, u) ==
  \E i \in 1..Len(log[r]) :
    /\ log[r][i].level = "warn"
    /\ log[r][i].msg = "Filtered out invalid BBS URL: "
    /\ log[r][i].arg = u

(* C6 as claimed: when a finished response holds a BBSwheels.com URL      *)
(* whose exact string is not in the Trusted URL Set, a mismatch warning   *)
(* is logged and the text delivered is the text generated.                *)
C6_AbsentUrlWarned ==
  \A r \in Requests :
    pc[r] = "done" =>
      \A u \in SensitiveUrls(r) :
        u \notin Range(validCollectionUrls[r]) =>
          /\ Warned(r, u)
          /\ textOf(delivered[r]) = GeneratedText(r)

NoTrustedMatch(r, u) ==
  \A v \in Range(validCollectionUrls[r]) :
    /\ toLowerCase(v) # toLowerCase(u)
    /\ ~(Len(v) <= Len(u) /\ SubSeq(u, 1, Len(v)) = v)

(* C6 as amended: when a response finished on the primary path holds a    *)
(* BBSwheels.com URL that no entry of the Trusted URL Set equals without  *)
(* regard to case and of which no entry is a prefix, a mismatch warning   *)
(* is logged and the text delivered is the text generated.                *)
C6_UntrustedUrlWarned ==
  \A r \in Requests :
    (pc[r] = "done" /\ LastCall(r).path = "primary") =>
      \A u \in SensitiveUrls(r) :
        NoTrustedMatch(r, u) =>
          /\ Warned(r, u)
          /\ textOf(delivered[r]) = GeneratedText(r)

C6_Witness ==
  \E r \in Requests :
    /\ pc[r] = "done"
    /\ LastCall(r).path = "primary"
    /\ validCollectionUrls[r] # <<>>
    /\ URL_EVIL \in SensitiveUrls(r)
    /\ NoTrustedMatch(r, URL_EVIL)
    /\ Warned(r, URL_EVIL)
    /\ textOf(delivered[r]) = GeneratedText(r)

C8_GenerationFailureFinal ==
  \A r \in Requests :
    \A i \in 1..Len(genCalls[r]) :
      genCalls[r][i].status \in {"threw", "errored"} =>
        /\ i = Len(genCalls[r])
        /\ pc[r] = "failed"

(* C9: a request whose body is not valid JSON, has no messages list, an   *)
(* empty messages list or a final message without parts fails with no     *)
(* search call, no generation call and no entry into the fallback path.   *)
C9_MalformedFailsEarly ==
  \A r \in Requests :
    (/\ body[r] # Undefined
     /\ body[r][1] \in {BodyInvalidJson, BodyNoMessages, BodyEmptyMessages,
                        BodyNoParts}) =>
      /\ pc[r] = "failed"
      /\ searchCalls[r] = <<>>
      /\ genCalls[r] = <<>>
      /\ log[r] = <<>>

C9_Witness ==
  \E r \in Requests :
    /\ body[r] = Some(BodyNoParts)
    /\ pc[r] = "failed"
    /\ genCalls[r] = <<>>

OwnUrls(r) ==
  IF searchResults[r] = Undefined THEN <<>>
  ELSE extractUrls(searchResults[r][1])

OwnContext(r) ==
  IF Processed(r) THEN partition(searchResults[r][1]).contextText ELSE <<>>

WarningsOf(r) ==
  SelectSeq(log[r], LAMBDA e : e.level = "warn")

(* C10: with several requests in flight, each request's Trusted URL Set,  *)
(* context string and prompts come from its own messages and its own      *)
(* search results, and the warnings of its audit are those its own        *)
(* Trusted URL Set gives for its own generated text.                      *)
C10_RequestsIsolated ==
  \A r \in Requests :
    /\ validCollectionUrls[r] = OwnUrls(r)
    /\ contextText[r] = OwnContext(r)
    /\ \A i \in 1..Len(genCalls[r]) :
         /\ genCalls[r][i].history = messagesOf(r)
         /\ genCalls[r][i].abortSignal = r
         /\ genCalls[r][i].path = "primary" =>
              genCalls[r][i].system = systemPromptWithContext(OwnContext(r))
    /\ (pc[r] = "done" /\ LastCall(r).path = "primary") =>
         WarningsOf(r) = auditWarnings(foundUrls(GeneratedText(r)), OwnUrls(r))

C10_Witness ==
  /\ Cardinality(Requests) >= 2
  /\ \E r1 \in Requests, r2 \in Requests :
       /\ r1 # r2
       /\ pc[r1] = "done" /\ LastCall(r1).path = "primary"
       /\ pc[r2] = "done" /\ LastCall(r2).path = "primary"
       /\ GeneratedText(r1) = GeneratedText(r2)
       /\ validCollectionUrls[r1] # <<>>
       /\ validCollectionUrls[r2] # <<>>
       /\ Warned(r1, URL_EVIL)
       /\ ~Warned(r2, URL_EVIL)

(* The string holds nothing but white space. *)
IsBlank(s) == \A i \in 1..Len(s) : s[i] \in WhiteSpace

SearchCallOf(r, call) ==
  /\ call.query = userQuery[r]
  /\ call.max_num_results = 10

(* C11 as claimed: a request issues at most one search call; it issues    *)
(* exactly one, with the extracted query and a cap of 10 results, when    *)
(* the extracted query is non-empty, and none after a failure.            *)
C11_SearchedOnceWhenNonEmpty ==
  \A r \in Requests :
    /\ Len(searchCalls[r]) <= 1
    /\ Accepted(r) =>
         /\ userQuery[r] # <<>> => Len(searchCalls[r]) = 1
         /\ \A i \in 1..Len(searchCalls[r]) : SearchCallOf(r, searchCalls[r][i])

(* C11 as amended: a request issues at most one search call; it issues    *)
(* exactly one, with the extracted query and a cap of 10 results, when    *)
(* the extracted query holds a character that is not white space, and     *)
(* none after a failure: the request that fell back has the one call      *)
(* that threw, or none.                                                   *)
C11_SearchedOnceWhenNotBlank ==
  \A r \in Requests :
    /\ Len(searchCalls[r]) <= 1
    /\ Accepted(r) =>
         /\ ~IsBlank(userQuery[r]) => Len(searchCalls[r]) = 1
         /\ \A i \in 1..Len(searchCalls[r]) : SearchCallOf(r, searchCalls[r][i])
    /\ \A i \in 1..Len(genCalls[r]) :
         genCalls[r][i].path = "fallback" =>
           \A k \in 1..Len(searchCalls[r]) :
             searchCalls[r][k].status \in {"threw", "returned"}

C11_Witness ==
  \E r \in Requests :
    /\ Accepted(r)
    /\ ~IsBlank(userQuery[r])
    /\ Len(searchCalls[r]) = 1
    /\ SearchCallOf(r, searchCalls[r][1])
    /\ searchCalls[r][1].status = "threw"
    /\ LastCall(r).path = "fallback"
    /\ LastCall(r).status = "finished"

RECURSIVE TextsOf(_)
TextsOf(parts) ==
  IF parts = <<>> THEN <<>>
  ELSE (IF Head(parts).type = "text" THEN <<Head(parts).text[1]>> ELSE <<>>)
       \o TextsOf(Tail(parts))

RECURSIVE SpaceJoined(_)
SpaceJoined(texts) ==
  IF texts = <<>> THEN <<>>
  ELSE IF Len(texts) = 1 THEN texts[1]
  ELSE texts[1] \o <<" ">> \o SpaceJoined(Tail(texts))

(* C13: the query of a request, and the query of every search call it     *)
(* issues, is the texts of the text parts of the final message, in their  *)
(* order, with one space between two texts; parts of other types and      *)
(* earlier messages add nothing.                                          *)
C13_QueryFromFinalTexts ==
  \A r \in Requests :
    Accepted(r) =>
      /\ userQuery[r] = SpaceJoined(TextsOf(LastParts(r)))
      /\ \A i \in 1..Len(searchCalls[r]) :
           searchCalls[r][i].query = SpaceJoined(TextsOf(LastParts(r)))

C13_Witness ==
  \E r \in Requests :
    /\ Accepted(r)
    /\ Len(messagesOf(r)) > 1
    /\ Len(TextsOf(LastParts(r))) = 2
    /\ Len(LastParts(r)) = 3
    /\ Len(searchCalls[r]) = 1
    /\ searchCalls[r][1].query = <<" ","a"," ","b"," ">>
    /\ searchCalls[r][1].status = "returned"

(* The context between its two marker lines. *)
Wrapped(ctx) ==
  <<"===== VECTOR DB DATA =====", "\n">> \o ctx
    \o <<"\n", "===== END VECTOR DB DATA =====", "\n">>

IsPrefix(p, s) == Len(p) <= Len(s) /\ SubSeq(s, 1, Len(p)) = p

IsSuffix(p, s) ==
  Len(p) <= Len(s) /\ SubSeq(s, Len(s) - Len(p) + 1, Len(s)) = p

RetrievedNothing(r) ==
  searchCalls[r] = <<>> \/ searchResults[r] = Some(<<>>)

(* C14 as claimed: the system prompt of a primary generation begins with  *)
(* the template and ends with the context between the markers exactly     *)
(* when the context is non-empty; when it is empty, and so when the       *)
(* search was skipped or returned no result, the prompt is the template   *)
(* and nothing more.                                                      *)
C14_NothingAppendedWhenEmpty ==
  \A r \in Requests :
    \A i \in 1..Len(genCalls[r]) :
      genCalls[r][i].path = "primary" =>
        LET system == genCalls[r][i].system
        IN  /\ IsPrefix(<<"BBS_SYSTEM_PROMPT">>, system)
            /\ HasMarkers(system) <=> contextText[r] # <<>>
            /\ contextText[r] # <<>> =>
                 IsSuffix(Wrapped(contextText[r]), system)
            /\ RetrievedNothing(r) => contextText[r] = <<>>
            /\ contextText[r] = <<>> => system = <<"BBS_SYSTEM_PROMPT">>

(* C14 as amended: the system prompt of a primary generation is the       *)
(* template, two line breaks, and then, exactly when the context is       *)
(* non-empty, two more line breaks and the context between the markers;   *)
(* when the search was skipped or returned no result the prompt is the    *)
(* template and the two line breaks, without markers.                     *)
C14_MarkersIffContext ==
  \A r \in Requests :
    \A i \in 1..Len(genCalls[r]) :
      genCalls[r][i].path = "primary" =>
        LET system == genCalls[r][i].system
        IN  /\ HasMarkers(system) <=> contextText[r] # <<>>
            /\ contextText[r] # <<>> =>
                 system = <<"BBS_SYSTEM_PROMPT", "\n", "\n", "\n", "\n">>
                            \o Wrapped(contextText[r])
            /\ RetrievedNothing(r) => contextText[r] = <<>>
            /\ contextText[r] = <<>> =>
                 system = <<"BBS_SYSTEM_PROMPT", "\n", "\n">>

C14_Witness ==
  \E r \in Requests :
    /\ Len(genCalls[r]) = 1
    /\ LastCall(r).path = "primary"
    /\ LastCall(r).status = "finished"
    /\ searchResults[r] # Undefined
    /\ Len(searchResults[r][1]) = 2
    /\ contextText[r] = <<"r","i","m","s">> \o Separator
    /\ IsSuffix(Wrapped(contextText[r]), LastCall(r).system)

Unparseable(result) == ~JSONparse(contentString(result)).ok

Parseable(result) == JSONparse(contentString(result)).ok

(* C15: when the results of a search hold a content that does not parse,  *)
(* the Trusted URL Set is what the other results give, in order; unless   *)
(* a file name raises an error the handler goes on to the primary         *)
(* generation, and the content that does not parse is one of the          *)
(* contents joined into the context string.                               *)
C15_ParseFailureSkipped ==
  \A r \in Requests :
    (/\ searchResults[r] # Undefined
     /\ \E i \in 1..Len(searchResults[r][1]) :
          Unparseable(searchResults[r][1][i])) =>
      LET data == searchResults[r][1]
      IN  /\ validCollectionUrls[r] = extractUrls(SelectSeq(data, Parseable))
          /\ Processed(r) =>
               /\ genCalls[r][1].path = "primary"
               /\ Len(allData[r]) = Len(data)
               /\ contextText[r] = join(allData[r], Separator)
               /\ \A i \in 1..Len(data) :
                    Unparseable(data[i]) =>
                      /\ contentString(data[i]) \in Range(allData[r])
                      /\ includes(contextText[r], contentString(data[i]))

C15_Witness ==
  \E r \in Requests :
    /\ searchResults[r] # Undefined
    /\ Len(searchResults[r][1]) = 2
    /\ Unparseable(searchResults[r][1][1])
    /\ contentString(searchResults[r][1][1]) = <<"r","i","m","s">>
    /\ validCollectionUrls[r] = <<URL_A>>
    /\ Len(genCalls[r]) = 1
    /\ LastCall(r).path = "primary"
    /\ LastCall(r).status = "finished"
    /\ includes(contextText[r], <<"r","i","m","s">>)

SearchSettled(calls) ==
  \A k \in 1..Len(calls) : calls[k].status \in {"returned", "threw"}

(* C16: in every step of a request, the first generation call is made     *)
(* only when every search call issued has returned or thrown; the step    *)
(* that runs the audit ends the generation, adds no chunk and audits the  *)
(* text of all chunks produced; and after the audit has run no step       *)
(* changes its result, the chunks produced or the log, so the audit runs  *)
(* once at most.                                                          *)
C16_StepsOrdered ==
  [][\A r \in Requests :
       /\ (genCalls[r] = <<>> /\ genCalls'[r] # <<>>) =>
            SearchSettled(searchCalls'[r])
       /\ genCalls[r] # <<>> =>
            (SearchSettled(searchCalls[r]) /\ searchCalls'[r] = searchCalls[r])
       /\ (validated[r] = Undefined /\ validated'[r] # Undefined) =>
            /\ genCalls[r][Len(genCalls[r])].status = "streaming"
            /\ genCalls'[r][Len(genCalls'[r])].status = "finished"
            /\ produced'[r] = produced[r]
            /\ validated'[r] = Some(textOf(produced[r]))
       /\ validated[r] # Undefined =>
            /\ validated'[r] = validated[r]
            /\ produced'[r] = produced[r]
            /\ genCalls'[r] = genCalls[r]
            /\ log'[r] = log[r]]_vars

C16_Witness ==
  \E r \in Requests :
    /\ Len(searchCalls[r]) = 1
    /\ searchCalls[r][1].status = "returned"
    /\ Len(genCalls[r]) = 1
    /\ genCalls[r][1].status = "finished"
    /\ produced[r] # <<>>
    /\ validated[r] = Some(textOf(produced[r]))
    /\ WarningsOf(r) # <<>>

LastStatus(calls) == IF calls = <<>> THEN "none" ELSE calls[Len(calls)].status

AbortLogged(r, path) ==
  [level |-> "log",
   msg |-> IF path = "fallback" THEN "Stream aborted by client (fallback path)"
           ELSE "Stream aborted by client",
   arg |-> <<>>]

(* C17: every generation call, primary or fallback, is given the signal   *)
(* of its own request; the step in which the caller aborts a generation   *)
(* logs the abort line of the path and delivers no chunk; and after the   *)
(* abort no step delivers or produces a chunk or writes to the log.       *)
C17_AbortEndsStream ==
  [][\A r \in Requests :
       /\ \A i \in 1..Len(genCalls'[r]) :
            /\ genCalls'[r][i].path \in {"primary", "fallback"}
            /\ genCalls'[r][i].abortSignal = r
       /\ (LastStatus(genCalls[r]) # "aborted"
             /\ LastStatus(genCalls'[r]) = "aborted") =>
            /\ LastStatus(genCalls[r]) = "streaming"
            /\ log'[r] = Append(log[r],
                                AbortLogged(r, genCalls[r][Len(genCalls[r])].path))
            /\ delivered'[r] = delivered[r]
       /\ LastStatus(genCalls[r]) = "aborted" =>
            /\ delivered'[r] = delivered[r]
            /\ produced'[r] = produced[r]
            /\ genCalls'[r] = genCalls[r]
            /\ log'[r] = log[r]]_vars

C17_Witness ==
  \E r \in Requests :
    /\ Len(genCalls[r]) = 2
    /\ genCalls[r][1].path = "primary"
    /\ genCalls[r][1].abortSignal = r
    /\ genCalls[r][2].path = "fallback"
    /\ genCalls[r][2].abortSignal = r
    /\ genCalls[r][2].status = "aborted"
    /\ delivered[r] # <<>>
    /\ log[r][Len(log[r])] = AbortLogged(r, "fallback")

PrimaryCountLogged(r) ==
  \E i \in 1..Len(log[r]) :
    log[r][i].msg = "results from BBS_wheels.json (primary source)"

(* The contents of the results, in the order of the search. *)
RECURSIVE InRetrievalOrder(_)
InRetrievalOrder(data) ==
  IF data = <<>> THEN <<>>
  ELSE <<IF Head(data).content.t = "str" THEN Head(data).content.v
         ELSE stringify(Head(data).content)>>
       \o InRetrievalOrder(Tail(data))

FellBack(r) == \E i \in 1..Len(genCalls[r]) : genCalls[r][i].path = "fallback"

(* C19: a request that has fallen back never has an audit result and      *)
(* never has a warning in its log, whatever the generated text holds.     *)
C19_NoAuditAfterFallback ==
  \A r \in Requests :
    FellBack(r) =>
      /\ validated[r] = Undefined
      /\ \A i \in 1..Len(log[r]) : log[r][i].level # "warn"

C19_Witness ==
  \E r \in Requests :
    /\ FellBack(r)
    /\ LastCall(r).status = "finished"
    /\ validCollectionUrls[r] # <<>>
    /\ URL_EVIL \in SensitiveUrls(r)
    /\ NoTrustedMatch(r, URL_EVIL)
    /\ ~Warned(r, URL_EVIL)
    /\ validated[r] = Undefined

(* C20: a request whose extracted query holds nothing but white space     *)
(* issues no search call, even when its final message has text parts; a   *)
(* request whose query holds another character issues the search, and     *)
(* the query of the call is the extracted string with its leading and     *)
(* trailing white space.                                                  *)
C20_BlankQuerySkipsSearch ==
  \A r \in Requests :
    Accepted(r) =>
      /\ IsBlank(userQuery[r]) <=> searchCalls[r] = <<>>
      /\ \A i \in 1..Len(searchCalls[r]) :
           /\ searchCalls[r][i].query = SpaceJoined(TextsOf(LastParts(r)))
           /\ Len(searchCalls[r][i].query) = Len(userQuery[r])

C20_Witness ==
  \E r \in Requests :
    /\ Accepted(r)
    /\ TextsOf(LastParts(r)) # <<>>
    /\ userQuery[r] # <<>>
    /\ IsBlank(userQuery[r])
    /\ searchCalls[r] = <<>>
    /\ Len(genCalls[r]) = 1
    /\ LastCall(r).path = "primary"
    /\ LastCall(r).status = "finished"

RECURSIVE TotalLen(_)
TotalLen(list) ==
  IF list = <<>> THEN 0 ELSE Len(Head(list)) + TotalLen(Tail(list))

Occurrences(list, x) == Cardinality({i \in 1..Len(list) : list[i] = x})

SeparatorsIn(s) ==
  Cardinality({i \in 1..Len(s) :
                 /\ i + 6 <= Len(s)
                 /\ SubSeq(s, i, i + 6) = <<"\n","\n","-","-","-","\n","\n">>})

(* C21: when the n results of a search are processed without error, the  *)
(* entries of the context string are n, each coerced content is an entry  *)
(* as many times as it is a result, and the context string is as long as  *)
(* all contents and n-1 separators; for contents that hold no separator   *)
(* themselves the context string holds n-1 separators, none when n is 0.  *)
C21_ContextIsPermutation ==
  \A r \in Requests :
    Processed(r) =>
      LET data == searchResults[r][1]
          n == Len(data)
          contents == InRetrievalOrder(data)
      IN  /\ Len(allData[r]) = n
          /\ \A c \in Range(contents) \cup Range(allData[r]) :
               Occurrences(allData[r], c) = Occurrences(contents, c)
          /\ Len(contextText[r]) =
               TotalLen(contents) + (IF n = 0 THEN 0 ELSE (n - 1) * 7)
          /\ SeparatorsIn(contextText[r]) = (IF n = 0 THEN 0 ELSE n - 1)
          /\ \A c \in Range(contents) : includes(contextText[r], c)

C21_Witness ==
  \E r \in Requests :
    /\ Processed(r)
    /\ Len(searchResults[r][1]) = 2
    /\ searchResults[r][1][1] = searchResults[r][1][2]
    /\ allData[r] = <<<<"r","i","m","s">>, <<"r","i","m","s">>>>
    /\ SeparatorsIn(contextText[r]) = 1
    /\ Len(contextText[r]) = 15
    /\ LastCall(r).path = "primary"

(* The URLs named in the texts of the conversation of r. *)
MessageUrls(r) ==
  UNION {UNION {Range(foundUrls(t)) :
                  t \in Range(TextsOf(messagesOf(r)[m].parts[1]))} :
           m \in 1..Len(messagesOf(r))}

(* C22: every entry of the Trusted URL Set of a request is a              *)
(* collection_url that a result of the request's own search carries; the  *)
(* set is empty while no search has returned, and so whenever the search  *)
(* was skipped, whatever URLs the messages and the generated text hold.   *)
C22_TrustedFromOwnResults ==
  \A r \in Requests :
    /\ searchResults[r] = Undefined => validCollectionUrls[r] = <<>>
    /\ searchCalls[r] = <<>> => validCollectionUrls[r] = <<>>
    /\ \A u \in Range(validCollectionUrls[r]) :
         \E i \in 1..Len(searchResults[r][1]) :
           u \in CarriedUrls(searchResults[r][1][i])

C22_Witness ==
  \E r \in Requests :
    /\ validated[r] # Undefined
    /\ validCollectionUrls[r] = <<URL_E>>
    /\ Range(foundUrls(GeneratedText(r))) \ Range(validCollectionUrls[r]) # {}

C22_SkippedWitness ==
  \E r \in Requests :
    /\ Accepted(r)
    /\ searchCalls[r] = <<>>
    /\ URL_B \in MessageUrls(r)
    /\ validated[r] # Undefined
    /\ SensitiveUrls(r) # {}
    /\ validCollectionUrls[r] = <<>>

HoldsExactCase(u) ==
  \E i \in 1..Len(u) :
    /\ i + 12 <= Len(u)
    /\ SubSeq(u, i, i + 12)
         = <<"B","B","S","w","h","e","e","l","s",".","c","o","m">>

(* Some trusted entry is a prefix of u only when the case is ignored. *)
LoweredPrefixOnly(r, u) ==
  \E v \in Range(validCollectionUrls[r]) :
    /\ ~IsPrefix(v, u)
    /\ IsPrefix(toLowerCase(v), toLowerCase(u))

(* C23: every URL that a warning names holds "BBSwheels.com" in exactly   *)
(* this case, so https://bbswheels.com/evil is never flagged whatever the *)
(* Trusted URL Set holds; and after the audit a URL that holds it, of     *)
(* which a trusted entry is a prefix only when the case is ignored and    *)
(* which no entry matches otherwise, is flagged.                          *)
C23_AuditCaseSensitive ==
  \A r \in Requests :
    /\ \A i \in 1..Len(log[r]) :
         log[r][i].level = "warn" =>
           /\ HoldsExactCase(log[r][i].arg)
           /\ log[r][i].arg
                # <<"h","t","t","p","s",":","/","/","b","b","s","w","h","e",
                    "e","l","s",".","c","o","m","/","e","v","i","l">>
    /\ validated[r] # Undefined =>
         \A u \in SensitiveUrls(r) :
           (LoweredPrefixOnly(r, u) /\ NoTrustedMatch(r, u)) => Warned(r, u)

C23_Witness ==
  \E r \in Requests :
    /\ validated[r] # Undefined
    /\ validCollectionUrls[r] # <<>>
    /\ URL_EVIL_LOWER \in Range(foundUrls(GeneratedText(r)))
    /\ ~HoldsExactCase(URL_EVIL_LOWER)
    /\ NoTrustedMatch(r, URL_EVIL_LOWER)
    /\ ~Warned(r, URL_EVIL_LOWER)
    /\ WarningsOf(r) # <<>>

C23_PrefixWitness ==
  \E r \in Requests :
    /\ validated[r] # Undefined
    /\ validCollectionUrls[r] = <<URL_EVIL_LOWER>>
    /\ \E u \in SensitiveUrls(r) :
         /\ LoweredPrefixOnly(r, u)
         /\ NoTrustedMatch(r, u)
         /\ Warned(r, u)

====
